---------------------------- MODULE Spec2Model ----------------------------
(***************************************************************************)
(* Model of scgenome/snvphylo.py: the interval annotation of points with   *)
(* segment attributes (annotate_copy_number, find_overlapping_segments),   *)
(* the SNV aggregation pipeline (compute_snv_log_likelihoods) and the      *)
(* presence/absence likelihood model (log_likelihood_present/absent).      *)
(*                                                                         *)
(* A pandas table is a sequence of records (one record per row, one field  *)
(* per column).  A points table carries its pandas index as the field      *)
(* "index", numbered from 1 in row order (a default RangeIndex).           *)
(* The floating point value NaN of a numeric column is the integer NaN     *)
(* below; every real value of the modelled columns is >= 0.                *)
(***************************************************************************)
EXTENDS Integers, Sequences, FiniteSets, TLC

VARIABLES
    pos,      \* points table handed to the annotation functions
    seg,      \* segments table handed to the annotation functions
    out,      \* outcome of the call: [status, rows]; status "none" before it
    snv_data,      \* the caller's table of SNV read counts
    clusters,      \* the caller's cluster assignment table
    allele_cn,     \* the caller's copy number table: [dtype, rows]
    snv_matrix,    \* the table after aggregation, [status, rows]
    result,        \* outcome of compute_snv_log_likelihoods, [status, rows]
    absent_calls,  \* the rows log_likelihood_absent was evaluated on, in order
    present_calls, \* the rows log_likelihood_present was evaluated on, in order
    largs,         \* the fixed arguments of the log_likelihood_present calls
    ll             \* ll[k + 1]: the value log_likelihood_present returned for n_v = k

avars == <<pos, seg, out>>
pvars == <<snv_data, clusters, allele_cn, snv_matrix, result, absent_calls, present_calls>>
lvars == <<largs, ll>>
vars == <<avars, pvars, lvars>>

NaN == -1

None == [status |-> "none", rows |-> <<>>]

Range(s) == {s[i] : i \in 1..Len(s)}

(***************************************************************************)
(* pandas / numpy primitives used by the annotation code                   *)
(***************************************************************************)

\* Series.unique(): the distinct values of a column, in order of first appearance
RECURSIVE Unique(_, _)
Unique(table, col) ==
    IF table = <<>> THEN <<>>
    ELSE LET front == Unique(SubSeq(table, 1, Len(table) - 1), col)
             v     == table[Len(table)][col]
         IN  IF v \in Range(front) THEN front ELSE Append(front, v)

\* df[df[col] == value]: the rows with that value, in table order
Filter(table, col, value) == SelectSeq(table, LAMBDA r : r[col] = value)

\* the order of sort_values(['start', 'end'])
SegLess(s, t) == s.start < t.start \/ (s.start = t.start /\ s.end < t.end)

\* seg.sort_values(['start', 'end']): stable (lexsort) ascending sort
RECURSIVE SortValues(_)
SortValues(table) ==
    IF table = <<>> THEN <<>>
    ELSE LET n      == Len(table)
             sorted == SortValues(SubSeq(table, 1, n - 1))
             s      == table[n]
             k      == Cardinality({i \in 1..(n - 1) : ~SegLess(s, sorted[i])})
         IN  SubSeq(sorted, 1, k) \o <<s>> \o SubSeq(sorted, k + 1, n - 1)

\* seg.duplicated(['start', 'end']).any()
Duplicated(table) ==
    \E i, j \in 1..Len(table) :
        i < j /\ table[i].start = table[j].start /\ table[i].end = table[j].end

IsSorted(a) == \A i \in 1..(Len(a) - 1) : a[i] <= a[i + 1]

\* np.searchsorted(a, v) (side='left').  On an ascending array it is the
\* number of elements < v.  numpy leaves the result on an unsorted array
\* unspecified (some insertion position 0..len(a)): unspec is that position.
SearchSorted(a, v, unspec) ==
    IF IsSorted(a) THEN Cardinality({i \in 1..Len(a) : a[i] < v})
    ELSE unspec % (Len(a) + 1)

Column(table, col) == [i \in 1..Len(table) |-> table[i][col]]

(***************************************************************************)
(* find_overlapping_segments(pos, seg, columns)                            *)
(* und[index] is the unspecified searchsorted result used for the point    *)
(* with that index when the sorted segments' end column is not ascending.  *)
(***************************************************************************)
\* slip: the "- 1" after searchsorted on the starts is forgotten
StartIdx_NoMinusOne(sorted, p, und) ==
    SearchSorted(Column(sorted, "start"), p.coord, und[p.index])

StartIdx(sorted, p, und) ==
    SearchSorted(Column(sorted, "start"), p.coord, und[p.index]) - 1

EndIdx(sorted, p, und) ==
    SearchSorted(Column(sorted, "end"), p.coord, und[p.index])

Mask(sorted, p, und) == StartIdx(sorted, p, und) = EndIdx(sorted, p, und)

\* one row of results: the point's own columns, each requested column set
\* to NaN and then, under the mask, to the value of the segment at end_idx
ResultRow(sorted, p, columns, und) ==
    [c \in columns |->
        IF Mask(sorted, p, und)
        THEN sorted[EndIdx(sorted, p, und) + 1][c]
        ELSE NaN] @@ p

FindOverlappingSegments(points, segments, columns, und) ==
    LET sorted == SortValues(segments)
    IN  IF Duplicated(sorted)
        THEN [status |-> "DuplicateError", rows |-> <<>>]
        ELSE IF \E i \in 1..Len(points) :
                    /\ Mask(sorted, points[i], und)
                    /\ EndIdx(sorted, points[i], und) >= Len(sorted)
        THEN [status |-> "IndexError", rows |-> <<>>]   \* iloc out of bounds
        ELSE [status |-> "ok",
              rows   |-> [i \in 1..Len(points) |->
                             ResultRow(sorted, points[i], columns, und)]]

(***************************************************************************)
(* annotate_copy_number(pos, seg, columns, sample_col)                     *)
(***************************************************************************)
\* slip: a partition without points is skipped before its segments are checked
Partition_SkipEmpty(points, segments, columns, sample_col, sample_id, chrom, und) ==
    IF Filter(Filter(points, sample_col, sample_id), "chrom", chrom) = <<>>
    THEN [status |-> "ok", rows |-> <<>>]
    ELSE FindOverlappingSegments(
             Filter(Filter(points, sample_col, sample_id), "chrom", chrom),
             Filter(Filter(segments, sample_col, sample_id), "chr", chrom),
             columns, und)

\* slip: the segments are filtered by sample only (sample_seg instead of _seg)
Partition_AllChroms(points, segments, columns, sample_col, sample_id, chrom, und) ==
    FindOverlappingSegments(
        Filter(Filter(points, sample_col, sample_id), "chrom", chrom),
        Filter(segments, sample_col, sample_id),
        columns, und)

\* the call of find_overlapping_segments for one (sample_id, chrom) of the loops
Partition(points, segments, columns, sample_col, sample_id, chrom, und) ==
    FindOverlappingSegments(
        Filter(Filter(points, sample_col, sample_id), "chrom", chrom),
        Filter(Filter(segments, sample_col, sample_id), "chr", chrom),
        columns, und)

RECURSIVE Concat(_)
Concat(tables) ==
    IF tables = <<>> THEN <<>> ELSE Head(tables) \o Concat(Tail(tables))

AnnotateCopyNumber(points, segments, columns, sample_col, und) ==
    LET samples == Unique(segments, sample_col)
        chroms  == Unique(segments, "chr")
        nc      == Len(chroms)
        \* results, in the order the nested loops append them
        results == [k \in 1..(Len(samples) * nc) |->
                       Partition(points, segments, columns, sample_col,
                                 samples[((k - 1) \div nc) + 1],
                                 chroms[((k - 1) % nc) + 1], und)]
    IN  IF \E k \in 1..Len(results) : results[k].status # "ok"
        THEN \* the first call that raises ends the loops
             [status |-> results[CHOOSE k \in 1..Len(results) :
                                     /\ results[k].status # "ok"
                                     /\ \A m \in 1..(k - 1) : results[m].status = "ok"].status,
              rows   |-> <<>>]
        ELSE IF results = <<>>
        THEN [status |-> "ConcatError", rows |-> <<>>]   \* pd.concat([]) raises
        ELSE [status |-> "ok",
              rows   |-> Concat([k \in 1..Len(results) |-> results[k].rows])]

(***************************************************************************)
(* The likelihood model.  A log-likelihood is kept as the expression the   *)
(* code evaluates: a binomial log-pmf with its arguments, or the           *)
(* log-sum-exp of a list of them.  A probability is a fraction <<a, b>>.   *)
(***************************************************************************)
\* default of compute_log_likelihoods: error_rate=1e-3
ErrorRate == <<1, 1000>>

\* stats.binom.logpmf(x, n, p)
LogBinomialPdf(x, n, p) == [x |-> x, n |-> n, p |-> p]

LogSumExp(terms) == [logsumexp |-> terms]

LogLikelihoodAbsent(e_s, n_v, n_t) == LogBinomialPdf(n_v, n_t, e_s)

\* slip: the loop over c_v starts at 0 (arange(0., c_m + 1., 1.))
LogLikelihoodPresent_FromZero(c_m, c_t, e_s, n_v, n_t) ==
    IF c_m = 0 THEN LogLikelihoodAbsent(e_s, n_v, n_t)
    ELSE LogSumExp([c \in 1..(c_m + 1) |-> LogBinomialPdf(n_v, n_t, <<c - 1, c_t>>)])

\* log_likelihood_present for a copy number that is a number (not NaN)
LogLikelihoodPresent(c_m, c_t, e_s, n_v, n_t) ==
    IF c_m = 0 THEN LogLikelihoodAbsent(e_s, n_v, n_t)
    ELSE LogSumExp([c_v \in 1..c_m |-> LogBinomialPdf(n_v, n_t, <<c_v, c_t>>)])

CalculateLikelihoodAbsent(row, e_s) ==
    LogLikelihoodAbsent(e_s, row.alt_counts, row.alt_counts + row.ref_counts)

\* NaN + x is NaN
Plus(x, y) == IF x = NaN \/ y = NaN THEN NaN ELSE x + y

CalculateLikelihoodPresent(row, e_s) ==
    LogLikelihoodPresent(row.major_cn, Plus(row.major_cn, row.minor_cn), e_s,
                         row.alt_counts, row.ref_counts + row.alt_counts)

\* log_likelihood_present(c_m = NaN, ...) raises: NaN == 0 is false and
\* np.arange(1., NaN, 1.) has no length (ValueError), or, where a build
\* returns an empty range, log_sum_exp([]) raises ValueError
PresentRaises(row) == row.major_cn = NaN

FirstRaising(df) ==
    IF \E i \in 1..Len(df) : PresentRaises(df[i])
    THEN CHOOSE i \in 1..Len(df) :
             PresentRaises(df[i]) /\ \A j \in 1..(i - 1) : ~PresentRaises(df[j])
    ELSE 0

\* compute_log_likelihoods(df, error_rate): rows is df as the call leaves it
\* (the columns are assigned on df itself, which is also what is returned)
ComputeLogLikelihoods(df, error_rate) ==
    LET withAbsent == [i \in 1..Len(df) |->
                          [log_likelihood_absent |->
                              CalculateLikelihoodAbsent(df[i], error_rate)] @@ df[i]]
        k == FirstRaising(df)
    IN  IF k > 0
        THEN [status |-> "ValueError", rows |-> withAbsent,
              absent |-> df, present |-> SubSeq(df, 1, k)]
        ELSE [status |-> "ok",
              rows   |-> [i \in 1..Len(df) |->
                             [log_likelihood_present |->
                                 CalculateLikelihoodPresent(withAbsent[i], error_rate)]
                             @@ withAbsent[i]],
              absent |-> df, present |-> df]

(***************************************************************************)
(* compute_snv_log_likelihoods(snv_data, allele_cn, clusters)              *)
(***************************************************************************)
\* the sort order of the variant keys and of the cluster ids
VariantOrder == << <<"1", 1, "A", "C">>, <<"1", 1, "A", "T">>, <<"1", 2, "A", "T">> >>
ClusterOrder == <<"c1", "c2">>

VariantOf(r) == <<r.chrom, r.coord, r.ref, r.alt>>

\* snv_data.merge(clusters): inner join on the shared column sample_id
Merge(snv, cl) ==
    Concat([i \in 1..Len(snv) |->
               [j \in 1..Len(Filter(cl, "sample_id", snv[i].sample_id)) |->
                   [cluster_id |->
                       Filter(cl, "sample_id", snv[i].sample_id)[j].cluster_id]
                   @@ snv[i]]])

RECURSIVE SumColumn(_, _)
SumColumn(table, col) ==
    IF table = <<>> THEN 0 ELSE Head(table)[col] + SumColumn(Tail(table), col)

\* the rows of one group of the groupby
Group(merged, v, c) ==
    SelectSeq(merged, LAMBDA r : VariantOf(r) = v /\ r.cluster_id = c)

\* slip: a (variant, cluster) pair without reads is dropped (no unstack/fillna/stack)
Aggregate_NoBackfill(merged) ==
    LET vs    == SelectSeq(VariantOrder, LAMBDA v : \E k \in 1..Len(merged) : VariantOf(merged[k]) = v)
        cs    == SelectSeq(ClusterOrder, LAMBDA c : \E k \in 1..Len(merged) : merged[k].cluster_id = c)
        nc    == Len(cs)
        all   == [k \in 1..(Len(vs) * nc) |->
                     <<vs[((k - 1) \div nc) + 1], cs[((k - 1) % nc) + 1]>>]
        kept  == SelectSeq(all, LAMBDA x : Group(merged, x[1], x[2]) # <<>>)
    IN  [k \in 1..Len(kept) |->
            LET v == kept[k][1]
                c == kept[k][2]
                g == Group(merged, v, c)
            IN  [index |-> k, chrom |-> v[1], coord |-> v[2], ref |-> v[3], alt |-> v[4],
                 cluster_id |-> c,
                 alt_counts |-> SumColumn(g, "alt_counts"),
                 ref_counts |-> SumColumn(g, "ref_counts"),
                 total_counts |-> SumColumn(g, "ref_counts") + SumColumn(g, "alt_counts"),
                 variant_id |-> v]]

\* groupby(...).sum().unstack().fillna(0).astype(int).stack().reset_index(),
\* then total_counts and variant_id (the four key fields, joined by ':').
\* The rows are the sorted variants times the sorted cluster ids.
Aggregate(merged) ==
    LET vs == SelectSeq(VariantOrder, LAMBDA v : \E k \in 1..Len(merged) : VariantOf(merged[k]) = v)
        cs == SelectSeq(ClusterOrder, LAMBDA c : \E k \in 1..Len(merged) : merged[k].cluster_id = c)
        nc == Len(cs)
    IN  [k \in 1..(Len(vs) * nc) |->
            LET v == vs[((k - 1) \div nc) + 1]
                c == cs[((k - 1) % nc) + 1]
                g == Group(merged, v, c)
            IN  [index |-> k, chrom |-> v[1], coord |-> v[2], ref |-> v[3], alt |-> v[4],
                 cluster_id |-> c,
                 alt_counts |-> SumColumn(g, "alt_counts"),
                 ref_counts |-> SumColumn(g, "ref_counts"),
                 total_counts |-> SumColumn(g, "ref_counts") + SumColumn(g, "alt_counts"),
                 variant_id |-> v]]

\* DataFrame.drop_duplicates(): the first of equal rows is kept
RECURSIVE DropDuplicates(_)
DropDuplicates(table) ==
    IF table = <<>> THEN <<>>
    ELSE LET front == DropDuplicates(SubSeq(table, 1, Len(table) - 1))
             r     == table[Len(table)]
         IN  IF r \in Range(front) THEN front ELSE Append(front, r)

CnColumns == {"major_cn", "minor_cn", "total_cn"}

\* the caller's allele_cn after lines 68-70: the three columns are replaced
\* in place by their astype(int)
CastInPlace(cn) == [cn EXCEPT !.dtype = "int"]

\* The whole function.  emptyOk is what the build does with an empty join
\* (unstack/apply on an empty frame): go on with an empty table, or raise.
ComputeSnvLogLikelihoods(snv, cn, cl, und, emptyOk) ==
    LET merged == Merge(snv, cl)
        matrix == Aggregate(merged)
        local  == DropDuplicates(cn.rows)
        annot  == AnnotateCopyNumber(matrix, local, CnColumns, "cluster_id", und)
        lik    == ComputeLogLikelihoods(annot.rows, ErrorRate)
        nocall == [absent |-> <<>>, present |-> <<>>]
    IN  IF merged = <<>> /\ ~emptyOk
        THEN [matrix |-> [status |-> "ValueError", rows |-> <<>>],
              cn |-> cn, calls |-> nocall,
              result |-> [status |-> "ValueError", rows |-> <<>>]]
        ELSE IF annot.status # "ok"
        THEN [matrix |-> [status |-> "ok", rows |-> matrix],
              cn |-> CastInPlace(cn), calls |-> nocall,
              result |-> [status |-> annot.status, rows |-> <<>>]]
        ELSE [matrix |-> [status |-> "ok", rows |-> matrix],
              cn |-> CastInPlace(cn),
              calls |-> [absent |-> lik.absent, present |-> lik.present],
              result |-> [status |-> lik.status,
                          rows |-> IF lik.status = "ok" THEN lik.rows ELSE <<>>]]

\* The searchsorted results that are unspecified in a call over n points:
\* one position per point when some partition's end column is not ascending
\* after the sort by (start, end), and nothing to choose otherwise.
Unspecified(n, segments, sample_col) ==
    IF \E i, j \in 1..Len(segments) :
           /\ segments[i][sample_col] = segments[j][sample_col]
           /\ segments[i].chr = segments[j].chr
           /\ SegLess(segments[i], segments[j])
           /\ segments[i].end > segments[j].end
    THEN [1..n -> 0..Len(segments)]
    ELSE {[i \in 1..n |-> 0]}

(***************************************************************************)
(* Input tables                                                            *)
(***************************************************************************)
SeqsUpTo(S, n) == UNION {[1..k -> S] : k \in 0..n}

\* points tables of at most n rows with a RangeIndex
PointTables(samples, chroms, coords, n) ==
    {[i \in 1..Len(t) |-> [index |-> i, sample_id |-> t[i][1],
                           chrom |-> t[i][2], coord |-> t[i][3]]] :
        t \in SeqsUpTo(samples \X chroms \X coords, n)}

\* segments tables of at most n rows with (start, end) among intervals;
\* the attribute values of row i are distinct from those of every other
\* row, so that a copied value names the segment it was copied from
SegTables(samples, chroms, intervals, n) ==
    {[i \in 1..Len(t) |-> [sample_id |-> t[i][1], chr |-> t[i][2],
                           start |-> t[i][3][1], end |-> t[i][3][2],
                           major |-> i, minor |-> i - 1]] :
        t \in SeqsUpTo(samples \X chroms \X intervals, n)}

\* all (start, end) with 0 <= start <= end <= maxCoord
Intervals(maxCoord) == {x \in (0..maxCoord) \X (0..maxCoord) : x[1] <= x[2]}

Columns == {"major", "minor"}

PSamples == {"s1", "s2"}

\* the (ref_counts, alt_counts) of an input row
PCounts == {<<1, 0>>, <<0, 2>>}

ReadTables(n) ==
    {[i \in 1..Len(t) |-> [sample_id |-> t[i][1],
                           chrom |-> t[i][2][1], coord |-> t[i][2][2],
                           ref |-> t[i][2][3], alt |-> t[i][2][4],
                           ref_counts |-> t[i][3][1], alt_counts |-> t[i][3][2]]] :
        t \in SeqsUpTo(PSamples \X Range(VariantOrder) \X PCounts, n)}

ClusterTables(n) ==
    {[i \in 1..Len(t) |-> [sample_id |-> t[i][1], cluster_id |-> t[i][2]]] :
        t \in SeqsUpTo(PSamples \X Range(ClusterOrder), n)}

\* the (start, end) and the (major_cn, minor_cn) of an input segment
PIntervals == {<<0, 1>>, <<0, 2>>}
PCopyNumbers == {<<2, 1>>, <<0, 0>>}

CnTables(n) ==
    {[dtype |-> d,
      rows  |-> [i \in 1..Len(t) |->
                    [chr |-> "1", start |-> t[i][1][1], end |-> t[i][1][2],
                     cluster_id |-> t[i][2],
                     total_cn |-> t[i][3][1] + t[i][3][2],
                     minor_cn |-> t[i][3][2], major_cn |-> t[i][3][1]]]] :
        d \in {"float", "int"},
        t \in SeqsUpTo(PIntervals \X Range(ClusterOrder) \X PCopyNumbers, n)}

\* the state of the pipeline's variables where it is not run
PipelineIdle ==
    /\ snv_data = <<>>
    /\ clusters = <<>>
    /\ allele_cn = [dtype |-> "int", rows |-> <<>>]
    /\ snv_matrix = None
    /\ result = None
    /\ absent_calls = <<>>
    /\ present_calls = <<>>

LikelihoodIdle ==
    /\ largs = [c_m |-> 0, minor |-> 0, n_t |-> 0]
    /\ ll = <<>>

AnnotateIdle ==
    /\ pos = <<>>
    /\ seg = <<>>
    /\ out = None

(***************************************************************************)
(* Specification of a direct call of find_overlapping_segments             *)
(***************************************************************************)
FCoord  == 3
FSegs   == 2
FPoints == 1

InitFind ==
    /\ pos \in PointTables({"A"}, {"1"}, 0..FCoord, FPoints)
    /\ seg \in SegTables({"A"}, {"1"}, Intervals(FCoord), FSegs)
    /\ out = None
    /\ PipelineIdle
    /\ LikelihoodIdle

CallFindOverlappingSegments ==
    /\ out.status = "none"
    /\ \E und \in Unspecified(Len(pos), seg, "sample_id") :
           out' = FindOverlappingSegments(pos, seg, Columns, und)
    /\ UNCHANGED <<pos, seg, pvars, lvars>>

NextFind == CallFindOverlappingSegments

SpecFind == InitFind /\ [][NextFind]_vars

(***************************************************************************)
(* Specification of a call of annotate_copy_number                         *)
(***************************************************************************)
ASegs   == 2
APoints == 1

Samples == {"A", "B"}
Chroms  == {"1", "2"}

\* the (start, end) of the segments: a segment, a zero-length segment nested
\* in it (the end column is then not ascending) and a segment sharing its end
AIntervals == {<<0, 2>>, <<1, 1>>, <<1, 2>>}
ACoords == 0..2

InitAnnotate ==
    /\ pos \in PointTables(Samples, Chroms, ACoords, APoints)
    /\ seg \in SegTables(Samples, Chroms, AIntervals, ASegs)
    /\ out = None
    /\ PipelineIdle
    /\ LikelihoodIdle

CallAnnotateCopyNumber ==
    /\ out.status = "none"
    /\ \E und \in Unspecified(Len(pos), seg, "sample_id") :
           out' = AnnotateCopyNumber(pos, seg, Columns, "sample_id", und)
    /\ UNCHANGED <<pos, seg, pvars, lvars>>

NextAnnotate == CallAnnotateCopyNumber

SpecAnnotate == InitAnnotate /\ [][NextAnnotate]_vars

(***************************************************************************)
(* Properties of find_overlapping_segments (SpecFind)                      *)
(***************************************************************************)
Called == out.status # "none"

\* the segments are non-empty intervals and each one ends where the next starts
Tiling(table) ==
    LET s == SortValues(table)
    IN  \A i \in 1..Len(s) :
            /\ s[i].start < s[i].end
            /\ i < Len(s) => s[i].end = s[i + 1].start

StrictlyInside(p, s) == s.start < p.coord /\ p.coord < s.end

OutsideAll(p, table) ==
    \A k \in 1..Len(table) : p.coord < table[k].start \/ p.coord > table[k].end

HasAttributesOf(r, s) == \A c \in Columns : r[c] = s[c]

AllMissing(r) == \A c \in Columns : r[c] = NaN

\* C2: on a tiling partition the call raises no error, a point strictly
\* inside a segment (start < coord < end) gets every requested column of
\* that segment, and a point outside all segments (before the first start
\* or after the last end) gets the missing value in every requested column.
C2_TilingInteriorAndOutside ==
    (Called /\ Tiling(seg)) =>
        /\ out.status = "ok"
        /\ Len(out.rows) = Len(pos)
        /\ \A i \in 1..Len(pos) :
               /\ out.rows[i].index = pos[i].index
               /\ \A k \in 1..Len(seg) :
                      StrictlyInside(pos[i], seg[k]) => HasAttributesOf(out.rows[i], seg[k])
               /\ OutsideAll(pos[i], seg) => AllMissing(out.rows[i])

\* a point strictly inside the second segment of a two-segment tiling has been annotated
C2_Witness ==
    /\ out.status = "ok"
    /\ Tiling(seg)
    /\ Len(seg) = 2
    /\ \E i \in 1..Len(pos) :
           /\ StrictlyInside(pos[i], SortValues(seg)[2])
           /\ HasAttributesOf(out.rows[i], SortValues(seg)[2])

\* C3: containment is half-open, start inclusive and end exclusive: on a
\* tiling partition a point with start <= coord < end of a segment gets
\* that segment's attributes (so a point on a shared boundary goes to the
\* segment starting there, and a point on the first start to the first).
C3_HalfOpenStartInclusive ==
    (Called /\ Tiling(seg)) =>
        \A i \in 1..Len(out.rows) :
            \A k \in 1..Len(seg) :
                (seg[k].start <= pos[i].coord /\ pos[i].coord < seg[k].end)
                    => HasAttributesOf(out.rows[i], seg[k])

(***************************************************************************)
(* Properties of annotate_copy_number (SpecAnnotate)                       *)
(***************************************************************************)
\* C1: the result holds exactly the input point rows, in input order, none
\* dropped or duplicated, with their own columns unchanged.
C1_RowsPreserved ==
    out.status = "ok" =>
        /\ Len(out.rows) = Len(pos)
        /\ \A i \in 1..Len(pos) :
               \A c \in DOMAIN pos[i] : out.rows[i][c] = pos[i][c]

SamePartition(s, t) == s.sample_id = t.sample_id /\ s.chr = t.chr

DuplicateBoundary(table) ==
    \E i, j \in 1..Len(table) :
        /\ i < j
        /\ SamePartition(table[i], table[j])
        /\ table[i].start = table[j].start
        /\ table[i].end = table[j].end

\* C4: the call fails with the duplicate-boundary error exactly when two
\* segments of one (sample, chromosome) partition share (start, end),
\* whatever the points table holds; an error returns no rows.
C4_DuplicateBoundaryError ==
    Called =>
        /\ (out.status = "DuplicateError") <=> DuplicateBoundary(seg)
        /\ out.status # "ok" => out.rows = <<>>

InPartition(p, s) == s.sample_id = p.sample_id /\ s.chr = p.chrom

\* the error was raised although no point lies in the partition with the duplicate
C4_Witness ==
    /\ out.status = "DuplicateError"
    /\ pos # <<>>
    /\ \A i \in 1..Len(pos) : \A k \in 1..Len(seg) : ~InPartition(pos[i], seg[k])

\* the segments of the point's own partition, as a set
Own(p) == {s \in Range(seg) : InPartition(p, s)}

\* the end column of the point's partition ascends once sorted by (start, end)
OwnEndsAscend(p) == \A s, t \in Own(p) : SegLess(s, t) => s.end <= t.end

\* C10: every non-missing attribute of an output row was copied from a
\* segment of the row's own (sample, chromosome), and whether the row is
\* assigned is decided by the segments of its own partition alone.
C10_PartitionedAnnotation ==
    out.status = "ok" =>
        \A i \in 1..Len(out.rows) :
            LET r == out.rows[i]
            IN  /\ \A c \in Columns :
                       r[c] # NaN => \E s \in Own(r) : r[c] = s[c]
                /\ OwnEndsAscend(r) =>
                       (~AllMissing(r) <=>
                           Cardinality({s \in Own(r) : s.start < r.coord}) - 1
                               = Cardinality({s \in Own(r) : s.end < r.coord}))

\* a point was annotated from its own segment although a segment of another
\* partition spans the same coordinates
C10_Witness ==
    /\ out.status = "ok"
    /\ \E i \in 1..Len(out.rows) :
           /\ ~AllMissing(out.rows[i])
           /\ \E s \in Range(seg) \ Own(out.rows[i]) :
                  s.start < out.rows[i].coord /\ out.rows[i].coord <= s.end

(***************************************************************************)
(* Specifications of a call of compute_snv_log_likelihoods                 *)
(***************************************************************************)
CallComputeSnvLogLikelihoods ==
    /\ result.status = "none"
    /\ \E und \in Unspecified(Len(VariantOrder) * Len(ClusterOrder),
                                allele_cn.rows, "cluster_id"),
          emptyOk \in (IF Merge(snv_data, clusters) = <<>> THEN BOOLEAN ELSE {TRUE}) :
           LET r == ComputeSnvLogLikelihoods(snv_data, allele_cn, clusters, und, emptyOk)
           IN  /\ snv_matrix' = r.matrix
               /\ allele_cn' = r.cn
               /\ absent_calls' = r.calls.absent
               /\ present_calls' = r.calls.present
               /\ result' = r.result
    /\ UNCHANGED <<snv_data, clusters, avars, lvars>>

NextPipeline == CallComputeSnvLogLikelihoods

\* read and cluster tables vary, over one copy number table
GReads  == 2
GAssign == 2

OneSegment ==
    [dtype |-> "float",
     rows  |-> <<[chr |-> "1", start |-> 0, end |-> 2, cluster_id |-> "c1",
                  total_cn |-> 3, minor_cn |-> 1, major_cn |-> 2]>>]

InitAggregate ==
    /\ snv_data \in ReadTables(GReads)
    /\ clusters \in ClusterTables(GAssign)
    /\ allele_cn = OneSegment
    /\ snv_matrix = None
    /\ result = None
    /\ absent_calls = <<>>
    /\ present_calls = <<>>
    /\ AnnotateIdle
    /\ LikelihoodIdle

SpecAggregate == InitAggregate /\ [][NextPipeline]_vars

\* all three tables vary
PReads  == 2
PAssign == 1
PCnRows == 2

InitPipeline ==
    /\ snv_data \in ReadTables(PReads)
    /\ clusters \in ClusterTables(PAssign)
    /\ allele_cn \in CnTables(PCnRows)
    /\ snv_matrix = None
    /\ result = None
    /\ absent_calls = <<>>
    /\ present_calls = <<>>
    /\ AnnotateIdle
    /\ LikelihoodIdle

SpecPipeline == InitPipeline /\ [][NextPipeline]_vars

(***************************************************************************)
(* Specification of the calls log_likelihood_present(c_m, c_m + minor,     *)
(* e_s, n_v, n_t) for n_v = 0, 1, ..., n_t, as calculate_likelihood_present *)
(* makes them for rows that differ in alt_counts only                      *)
(***************************************************************************)
LCn    == 3
LCount == 4

InitLikelihood ==
    /\ largs \in [c_m : 0..LCn, minor : 0..LCn, n_t : 0..LCount]
    /\ ll = <<>>
    /\ AnnotateIdle
    /\ PipelineIdle

CallLogLikelihoodPresent ==
    /\ Len(ll) <= largs.n_t
    /\ ll' = Append(ll, LogLikelihoodPresent(largs.c_m, largs.c_m + largs.minor,
                                             ErrorRate, Len(ll), largs.n_t))
    /\ UNCHANGED <<largs, avars, pvars>>

NextLikelihood == CallLogLikelihoodPresent

SpecLikelihood == InitLikelihood /\ [][NextLikelihood]_vars

(***************************************************************************)
(* Properties of the aggregation (SpecAggregate)                           *)
(***************************************************************************)
Done == result.status # "none"

\* C5: when the join gives the sample of some read more than one cluster,
\* the call fails with AmbiguousClusterAssignment and produces no table.
C5_AmbiguousAssignmentRaises ==
    (/\ Done
     /\ \E i \in 1..Len(snv_data) : \E j, k \in 1..Len(clusters) :
            /\ clusters[j].sample_id = snv_data[i].sample_id
            /\ clusters[k].sample_id = snv_data[i].sample_id
            /\ clusters[j].cluster_id # clusters[k].cluster_id)
        => /\ result.status = "AmbiguousClusterAssignment"
           /\ result.rows = <<>>

\* the rows of the join: a read and a cluster assignment row of its sample
Joined ==
    {x \in (1..Len(snv_data)) \X (1..Len(clusters)) :
        snv_data[x[1]].sample_id = clusters[x[2]].sample_id}

JoinedFor(v, c) ==
    {x \in Joined : VariantOf(snv_data[x[1]]) = v /\ clusters[x[2]].cluster_id = c}

RECURSIVE SumReads(_, _)
SumReads(xs, col) ==
    IF xs = {} THEN 0
    ELSE LET x == CHOOSE y \in xs : TRUE
         IN  snv_data[x[1]][col] + SumReads(xs \ {x}, col)

\* C8: after aggregation there is exactly one row for every pair of a
\* variant and a cluster id of the joined reads; it carries the sums of the
\* ref_counts and alt_counts of the pair's joined reads (0 when it has
\* none), total_counts = ref_counts + alt_counts, and no other row exists
\* (so reads of samples without cluster assignment reach no row).
C8_OneRowPerVariantAndCluster ==
    snv_matrix.status = "ok" =>
        LET rows == snv_matrix.rows
            vs   == {VariantOf(snv_data[x[1]]) : x \in Joined}
            cs   == {clusters[x[2]].cluster_id : x \in Joined}
        IN  /\ \A v \in vs : \A c \in cs :
                   \E k \in 1..Len(rows) :
                       /\ VariantOf(rows[k]) = v /\ rows[k].cluster_id = c
                       /\ rows[k].ref_counts = SumReads(JoinedFor(v, c), "ref_counts")
                       /\ rows[k].alt_counts = SumReads(JoinedFor(v, c), "alt_counts")
            /\ \A k \in 1..Len(rows) :
                   /\ VariantOf(rows[k]) \in vs /\ rows[k].cluster_id \in cs
                   /\ rows[k].total_counts = rows[k].ref_counts + rows[k].alt_counts
            /\ \A k, m \in 1..Len(rows) :
                   (VariantOf(rows[k]) = VariantOf(rows[m])
                        /\ rows[k].cluster_id = rows[m].cluster_id) => k = m

\* a pair without joined reads was backfilled with zero counts, next to a
\* pair that carries the counts of its reads
C8_Witness ==
    /\ snv_matrix.status = "ok"
    /\ \E k \in 1..Len(snv_matrix.rows) :
           /\ snv_matrix.rows[k].total_counts = 0
           /\ JoinedFor(VariantOf(snv_matrix.rows[k]), snv_matrix.rows[k].cluster_id) = {}
    /\ \E k \in 1..Len(snv_matrix.rows) : snv_matrix.rows[k].total_counts > 0

(***************************************************************************)
(* Properties of the whole pipeline (SpecPipeline)                         *)
(***************************************************************************)
\* the aggregated row lies in a cluster that has segments on its
\* chromosome, outside every one of them
Uncovered(r) ==
    LET own == {s \in Range(allele_cn.rows) : s.cluster_id = r.cluster_id /\ s.chr = r.chrom}
    IN  /\ own # {}
        /\ \A s \in own : r.coord < s.start \/ r.coord > s.end

EvaluatedOn(r) ==
    \/ \E k \in 1..Len(absent_calls) : absent_calls[k].index = r.index
    \/ \E k \in 1..Len(present_calls) : present_calls[k].index = r.index

\* C6: a row outside every segment of its cluster is no error: the
\* pipeline completes, and neither likelihood function is evaluated on it.
C6_UncoveredRowExcluded ==
    \A k \in 1..Len(snv_matrix.rows) :
        (/\ Done
         /\ result.status \notin {"DuplicateError", "IndexError", "ConcatError"}
         /\ Uncovered(snv_matrix.rows[k]))
            => /\ result.status = "ok"
               /\ ~EvaluatedOn(snv_matrix.rows[k])

\* C9: no step changes a table of the caller: snv_data, allele_cn and
\* clusters hold the same columns and values after the call as before.
C9_CallerTablesUnchanged ==
    [][snv_data' = snv_data /\ allele_cn' = allele_cn /\ clusters' = clusters]_vars

(***************************************************************************)
(* Properties of log_likelihood_present (SpecLikelihood)                   *)
(***************************************************************************)
RECURSIVE Pow(_, _)
Pow(a, n) == IF n = 0 THEN 1 ELSE a * Pow(a, n - 1)

RECURSIVE Choose(_, _)
Choose(n, k) ==
    IF k = 0 \/ k = n THEN 1 ELSE Choose(n - 1, k - 1) + Choose(n - 1, k)

\* exp of a returned value, times b^n where b is the denominator of the
\* probabilities: the sum of C(n, x) * a^x * (b - a)^(n - x) over its terms
Scaled(t) == Choose(t.n, t.x) * Pow(t.p[1], t.x) * Pow(t.p[2] - t.p[1], t.n - t.x)

RECURSIVE SumScaled(_)
SumScaled(terms) ==
    IF terms = <<>> THEN 0 ELSE Scaled(Head(terms)) + SumScaled(Tail(terms))

Likelihood(v) == SumScaled(v.logsumexp)

\* C7 as stated: for major_cn >= 1 the present likelihood never decreases
\* when alt_counts grows by one (total_counts and copy numbers fixed).
C7_MonotoneInAltCounts ==
    largs.c_m >= 1 =>
        \A k \in 0..(Len(ll) - 2) : Likelihood(ll[k + 2]) >= Likelihood(ll[k + 1])

\* C7 amended: for major_cn >= 1 the present likelihood does not decrease
\* from alt_counts = k to k + 1 as long as (k + 1) * total_cn <= total_counts + 1.
C7_MonotoneBelowLowestFraction ==
    largs.c_m >= 1 =>
        \A k \in 0..(Len(ll) - 2) :
            (k + 1) * (largs.c_m + largs.minor) <= largs.n_t + 1
                => Likelihood(ll[k + 2]) >= Likelihood(ll[k + 1])

\* two candidate copy numbers, and the likelihood grew strictly from
\* alt_counts = 0 to 1 within the amended range
C7_Witness ==
    /\ largs.c_m >= 2
    /\ Len(ll) >= 2
    /\ 1 * (largs.c_m + largs.minor) <= largs.n_t + 1
    /\ Likelihood(ll[2]) > Likelihood(ll[1])

=============================================================================
